---- MODULE Spec2Model ----
(***************************************************************************)
(* Model of DataDistributionServer (src/server-code.py): the record pool   *)
(* available_data, the assignment table client_data, the registered set    *)
(* clients, the single threading.Lock, the accept loop and one handler     *)
(* thread per accepted connection.                                         *)
(*                                                                         *)
(* Records are numbered 1..loaded in the order load_data read them; a      *)
(* record's 'id' field is taken to be that number.  Client identifiers     *)
(* "client_k" are modelled by the number k.  A handler thread is named by  *)
(* the index of the connection it serves; the main thread is Main.         *)
(***************************************************************************)
EXTENDS Integers, Sequences, FiniteSets, TLC

\* Bounds of the model.
MaxConns == 3        \* connections accepted during a run
NumRecords == 3      \* records in the CSV file

Conns == 1..MaxConns
Main == 0
Threads == Conns \cup {Main}
NoThread == -1

VARIABLES
    loaded,          \* len(available_data) right after load_data
    available_data,  \* self.available_data: sequence of records
    clients,         \* self.clients: client id -> socket (connection index)
    client_data,     \* self.client_data: client id -> sequence of records
    lock,            \* self.lock: NoThread, or the thread that acquired it
    running,         \* self.running
    nconn,           \* connections accepted so far
    pc,              \* position of every thread
    client_id,       \* handle_client's client_id argument, per handler
    request,         \* the message a handler is serving (line 52), per handler
    closed,          \* per connection: the server closed its socket
    caller,          \* who called distribute_data, per thread
    dd_arg,          \* distribute_data's client_id argument, per thread
    selected_data,   \* distribute_data's selected_data, per thread
    todo,            \* redistribute_data: clients still to visit, per thread
    updates          \* data_update pushes written on each connection

vars == <<loaded, available_data, clients, client_data, lock, running, nconn,
          pc, client_id, request, closed, caller, dd_arg, selected_data, todo, updates>>

----------------------------------------------------------------------------
\* Helpers

Max(a, b) == IF a >= b THEN a ELSE b
Min(a, b) == IF a <= b THEN a ELSE b
Range(s) == {s[i] : i \in DOMAIN s}
EmptyDict == [x \in {} |-> <<>>]
Put(f, k, v) == [x \in DOMAIN f \cup {k} |-> IF x = k THEN v ELSE f[x]]
Del(f, k) == [x \in DOMAIN f \ {k} |-> f[x]]

\* sorted(selected_indices, reverse=True)
RECURSIVE Descending(_)
Descending(S) ==
    IF S = {} THEN <<>>
    ELSE LET m == CHOOSE x \in S : \A y \in S : y <= x
         IN  <<m>> \o Descending(S \ {m})

\* Indices in increasing order: popping indices leaves the others in place.
RECURSIVE Ascending(_)
Ascending(S) ==
    IF S = {} THEN <<>>
    ELSE LET m == CHOOSE x \in S : \A y \in S : x <= y
         IN  <<m>> \o Ascending(S \ {m})

----------------------------------------------------------------------------
\* distribute_data, lines 110-119: the pure parts

\* distribute_data without the early return of lines 110-111
pool_empty_never(avail) == FALSE

\* line 110: "if not self.available_data"
pool_empty(avail) == avail = <<>>

\* n_records without the floor of 1
n_records_no_floor(p, r) == p \div (r + 1)

\* line 113: n_records
n_records(p, r) == Max(1, p \div (r + 1))

\* line 114-115: the size handed to random.sample
sample_size(p, r) == Min(n_records(p, r), p)

\* line 114-115: the index sets random.sample can return
sample_choices(p, r) == {S \in SUBSET (1..p) : Cardinality(S) = sample_size(p, r)}

\* line 116: selected_data, in descending index order
select(avail, S) == [j \in 1..Cardinality(S) |-> avail[Descending(S)[j]]]

\* the selected records are handed out but left in the pool
pop_selected_none(avail, S) == avail

\* lines 118-119: available_data after popping every selected index
pop_selected(avail, S) ==
    LET keep == Ascending((1..Len(avail)) \ S)
    IN  [j \in 1..Len(keep) |-> avail[keep[j]]]

\* line 121: self.client_data[client_id] = selected_data
assign(cd, c, sel) == Put(cd, c, sel)

----------------------------------------------------------------------------
\* __init__ (lines 15-19) followed by load_data (line 26) of a file of n rows
Loaded(n) ==
    /\ loaded = n
    /\ available_data = [i \in 1..n |-> i]
    /\ clients = EmptyDict
    /\ client_data = EmptyDict
    /\ lock = NoThread
    /\ running = TRUE
    /\ nconn = 0
    /\ pc = [t \in Threads |-> IF t = Main THEN "accept" ELSE "idle"]
    /\ client_id = [t \in Conns |-> 0]
    /\ request = [t \in Conns |-> "none"]
    /\ closed = [t \in Conns |-> FALSE]
    /\ caller = [t \in Threads |-> "none"]
    /\ dd_arg = [t \in Threads |-> 0]
    /\ selected_data = [t \in Threads |-> <<>>]
    /\ todo = [t \in Threads |-> <<>>]
    /\ updates = [t \in Conns |-> <<>>]

Init == Loaded(NumRecords)

----------------------------------------------------------------------------
\* "with self.lock:" at lines 98, 109, 126 and 189.  threading.Lock is not
\* reentrant: acquire blocks while any thread, the caller included, holds it.
\* A thread at a "..._lock" position is inside acquire; the step that takes
\* the lock also runs the first statements of the block.
lock_free(t) == lock = NoThread

----------------------------------------------------------------------------
\* The accept loop and shutdown (main thread)

\* start, lines 163-172: accept a connection, name it, register it, start
\* its handler thread.
Accept ==
    /\ pc[Main] = "accept"
    /\ nconn < MaxConns
    /\ LET s == nconn + 1
           cid == Cardinality(DOMAIN clients) + 1
       IN  /\ nconn' = s
           /\ clients' = Put(clients, cid, s)
           /\ client_id' = [client_id EXCEPT ![s] = cid]
           /\ pc' = [pc EXCEPT ![s] = "recv"]
    /\ UNCHANGED <<loaded, available_data, client_data, lock, running, request,
                   closed, caller, dd_arg, selected_data, todo, updates>>

\* start, lines 176-181, and shutdown, lines 185-189: the accept loop is left
\* and shutdown begins; it then waits for the lock.
Interrupt ==
    /\ pc[Main] = "accept"
    /\ running' = FALSE
    /\ pc' = [pc EXCEPT ![Main] = "sd_lock"]
    /\ UNCHANGED <<loaded, available_data, clients, client_data, lock, nconn,
                   client_id, request, closed, caller, dd_arg, selected_data,
                   todo, updates>>

\* shutdown, lines 189-197: the lock is taken, every registered socket is
\* closed, clients and client_data are cleared, the lock is released.
shutdown ==
    /\ pc[Main] = "sd_lock"
    /\ lock_free(Main)
    /\ closed' = [s \in Conns |-> closed[s] \/ s \in Range(clients)]
    /\ clients' = EmptyDict
    /\ client_data' = EmptyDict
    /\ lock' = NoThread
    /\ pc' = [pc EXCEPT ![Main] = "done"]
    /\ UNCHANGED <<loaded, available_data, running, nconn, client_id, request,
                   caller, dd_arg, selected_data, todo, updates>>

----------------------------------------------------------------------------
\* handle_client

\* What recv (line 47) can deliver: a request of a known type, a well-formed
\* message of another type ("unknown"), a payload json.loads or
\* request['type'] raises on ("malformed"), or the end of the connection.
\* On a socket the server has closed, recv fails.
Events(t) == IF closed[t] THEN {"error"}
             ELSE {"get_data", "get_id_locations", "unknown", "malformed",
                   "eof", "error"}

\* without the "finally" clause the handler thread just ends
loop_exit_plain == "done"

\* lines 91-92: "finally" - however the loop is left, cleanup_client is next
loop_exit == "cu_lock"

\* line 45: "while self.running", evaluated after a request was served
loop_top == IF running THEN "recv" ELSE loop_exit

\* any message that is not malformed is served as a get_data request
dispatch_else(ev) ==
    CASE ev = "get_id_locations" -> "locations"
      [] ev = "malformed" -> "except"
      [] ev \in {"eof", "error"} -> loop_exit
      [] OTHER -> "dd_lock"

\* lines 48-54, 63 and 75-89: where a message takes the handler.  A type
\* that matches neither branch falls through to the end of the loop body;
\* JSONDecodeError and the other exceptions are caught and the loop is left.
dispatch(ev) ==
    CASE ev = "get_data" -> "dd_lock"
      [] ev = "get_id_locations" -> "locations"
      [] ev = "unknown" -> "next"
      [] ev = "malformed" -> "except"
      [] OTHER -> loop_exit

\* lines 47-55 and 75-83: one message is read and dispatched
Recv(t) ==
    /\ pc[t] = "recv"
    /\ \E ev \in Events(t) :
         /\ pc' = [pc EXCEPT ![t] = dispatch(ev)]
         /\ request' = [request EXCEPT
                          ![t] = IF ev \in {"eof", "error"} THEN "none" ELSE ev]
         /\ IF dispatch(ev) = "dd_lock"
            THEN /\ caller' = [caller EXCEPT ![t] = "handle_client"]
                 /\ dd_arg' = [dd_arg EXCEPT ![t] = client_id[t]]
            ELSE UNCHANGED <<caller, dd_arg>>
    /\ UNCHANGED <<loaded, available_data, clients, client_data, lock, running,
                   nconn, client_id, closed, selected_data, todo, updates>>

\* line 74: no branch matched the request's type; the loop goes on
Skip(t) ==
    /\ pc[t] = "next"
    /\ request' = [request EXCEPT ![t] = "none"]
    /\ pc' = [pc EXCEPT ![t] = loop_top]
    /\ UNCHANGED <<loaded, available_data, clients, client_data, lock, running,
                   nconn, client_id, closed, caller, dd_arg, selected_data,
                   todo, updates>>

\* lines 84-89: the exception is reported and the loop is left
Break(t) ==
    /\ pc[t] = "except"
    /\ request' = [request EXCEPT ![t] = "none"]
    /\ pc' = [pc EXCEPT ![t] = loop_exit]
    /\ UNCHANGED <<loaded, available_data, clients, client_data, lock, running,
                   nconn, client_id, closed, caller, dd_arg, selected_data,
                   todo, updates>>

\* lines 64-67: every mapping the loops over client_data can build (one
\* owner per record; with a record in two allocations either may win)
id_locations(cd) ==
    LET held == UNION {Range(cd[c]) : c \in DOMAIN cd}
    IN  {m \in [held -> DOMAIN cd] : \A r \in held : r \in Range(cd[m[r]])}

\* lines 59-61, 71-73 and 78-83: what a reply can end in.  On a socket the
\* server has closed nothing is sent; otherwise the send succeeds or raises,
\* and a socket error ends the loop.
after_send(t) == IF closed[t] THEN {loop_top} ELSE {loop_top, loop_exit}

\* lines 63-73: get_id_locations, served without the lock: the reply is one
\* of id_locations(client_data), written unless the socket is closed
IdLocations(t) ==
    /\ pc[t] = "locations"
    /\ request' = [request EXCEPT ![t] = "none"]
    /\ \E p \in after_send(t) : pc' = [pc EXCEPT ![t] = p]
    /\ UNCHANGED <<loaded, available_data, clients, client_data, lock, running,
                   nconn, client_id, closed, caller, dd_arg, selected_data,
                   todo, updates>>

\* lines 56-61: the data_response carrying the records distribute_data
\* returned (selected_data), written unless the socket is closed; the call's
\* frame is gone afterwards
Respond(t) ==
    /\ pc[t] = "respond"
    /\ selected_data' = [selected_data EXCEPT ![t] = <<>>]
    /\ caller' = [caller EXCEPT ![t] = "none"]
    /\ dd_arg' = [dd_arg EXCEPT ![t] = 0]
    /\ request' = [request EXCEPT ![t] = "none"]
    /\ \E p \in after_send(t) : pc' = [pc EXCEPT ![t] = p]
    /\ UNCHANGED <<loaded, available_data, clients, client_data, lock, running,
                   nconn, client_id, closed, todo, updates>>

----------------------------------------------------------------------------
\* distribute_data, under the lock

\* where "return" of distribute_data continues
return_site(t) == IF caller[t] = "handle_client" THEN "respond" ELSE "rd_push"

\* lines 109-119: take the lock; return [] on an empty pool (releasing the
\* lock); otherwise sample and pop
DistributeSample(t) ==
    /\ pc[t] = "dd_lock"
    /\ lock_free(t)
    /\ UNCHANGED <<loaded, clients, client_data, running, nconn, client_id,
                   request, closed, caller, dd_arg, todo, updates>>
    /\ IF pool_empty(available_data)
       THEN /\ pc' = [pc EXCEPT ![t] = return_site(t)]
            /\ lock' = NoThread
            /\ selected_data' = [selected_data EXCEPT ![t] = <<>>]
            /\ UNCHANGED available_data
       ELSE /\ pc' = [pc EXCEPT ![t] = "dd_assign"]
            /\ lock' = t
            /\ \E S \in sample_choices(Len(available_data),
                                       Cardinality(DOMAIN clients)) :
                 /\ available_data' = pop_selected(available_data, S)
                 /\ selected_data' = [selected_data EXCEPT
                                        ![t] = select(available_data, S)]

\* lines 121-122: record the allocation, return it, release the lock
DistributeAssign(t) ==
    /\ pc[t] = "dd_assign"
    /\ client_data' = assign(client_data, dd_arg[t], selected_data[t])
    /\ lock' = NoThread
    /\ pc' = [pc EXCEPT ![t] = return_site(t)]
    /\ UNCHANGED <<loaded, available_data, clients, running, nconn, client_id,
                   request, closed, caller, dd_arg, selected_data, todo,
                   updates>>

----------------------------------------------------------------------------
\* cleanup_client and, called from it with the lock held, redistribute_data

\* line 135: list(self.clients.keys()), in whatever order the dict holds them
key_lists(d) ==
    {s \in [1..Cardinality(DOMAIN d) -> DOMAIN d] : Range(s) = DOMAIN d}

\* lines 144-154: send_data_to_client
send_data_to_client(c, data) ==
    IF c \in DOMAIN clients /\ ~closed[clients[c]]
    THEN updates' = [updates EXCEPT ![clients[c]] = Append(@, data)]
    ELSE UNCHANGED updates

\* lines 126-142
redistribute_data(t) ==
    CASE pc[t] = "rd_lock" ->
           \* lines 126-135: take the lock, reclaim the allocation
           /\ lock_free(t)
           /\ IF client_id[t] \notin DOMAIN client_data
              THEN /\ lock' = NoThread
                   /\ pc' = [pc EXCEPT ![t] = "cu_exit"]
                   /\ UNCHANGED <<available_data, client_data, caller, dd_arg,
                                  todo, updates>>
              ELSE /\ lock' = t
                   /\ client_data' = Del(client_data, client_id[t])
                   /\ available_data' =
                          available_data \o client_data[client_id[t]]
                   /\ \E ks \in key_lists(clients) :
                        todo' = [todo EXCEPT ![t] = ks]
                   /\ pc' = [pc EXCEPT ![t] = "rd_loop"]
                   /\ UNCHANGED <<caller, dd_arg, updates>>
      [] pc[t] = "rd_loop" ->
           \* lines 135-138
           IF todo[t] = <<>>
           THEN /\ lock' = NoThread
                /\ pc' = [pc EXCEPT ![t] = "cu_exit"]
                /\ UNCHANGED <<available_data, client_data, caller, dd_arg,
                               todo, updates>>
           ELSE /\ todo' = [todo EXCEPT ![t] = Tail(@)]
                /\ IF Head(todo[t]) \in DOMAIN clients
                   THEN /\ dd_arg' = [dd_arg EXCEPT ![t] = Head(todo[t])]
                        /\ caller' = [caller EXCEPT ![t] = "redistribute_data"]
                        /\ pc' = [pc EXCEPT ![t] = "dd_lock"]
                   ELSE UNCHANGED <<dd_arg, caller, pc>>
                /\ UNCHANGED <<available_data, client_data, lock, updates>>
      [] pc[t] = "rd_push" ->
           \* lines 139-140
           /\ IF selected_data[t] # <<>>
              THEN send_data_to_client(dd_arg[t], selected_data[t])
              ELSE UNCHANGED updates
           /\ pc' = [pc EXCEPT ![t] = "rd_loop"]
           /\ UNCHANGED <<available_data, client_data, lock, caller, dd_arg,
                          todo>>
      [] OTHER ->
           \* pc[t] = "cu_exit": leaving the "with" of line 98
           /\ lock' = NoThread
           /\ pc' = [pc EXCEPT ![t] = "done"]
           /\ UNCHANGED <<available_data, client_data, caller, dd_arg, todo,
                          updates>>

\* cleanup_client without the test of line 99
registered_always(c) == TRUE

\* line 99: "if client_id in self.clients"
registered(c) == c \in DOMAIN clients

\* lines 98-103: the lock is taken; a registered client is closed, removed
\* from clients, and redistribute_data is called with the lock still held
\* (it starts by acquiring the lock, line 126); for an unregistered client
\* the lock is released and nothing else happens.
cleanup_client(t) ==
    /\ pc[t] \in {"cu_lock", "rd_lock", "rd_loop", "rd_push", "cu_exit"}
    /\ IF pc[t] = "cu_lock"
       THEN /\ lock_free(t)
            /\ IF registered(client_id[t])
               THEN /\ closed' = [closed EXCEPT ![t] = TRUE]
                    /\ clients' = Del(clients, client_id[t])
                    /\ pc' = [pc EXCEPT ![t] = "rd_lock"]
                    /\ lock' = t
               ELSE /\ lock' = NoThread
                    /\ pc' = [pc EXCEPT ![t] = "done"]
                    /\ UNCHANGED <<closed, clients>>
            /\ UNCHANGED <<available_data, client_data, caller, dd_arg, todo,
                           updates>>
       ELSE /\ redistribute_data(t)
            /\ UNCHANGED <<closed, clients>>
    /\ UNCHANGED <<loaded, running, nconn, client_id, request, selected_data>>

----------------------------------------------------------------------------
Next ==
    \/ Accept
    \/ Interrupt
    \/ shutdown
    \/ \E t \in Conns : Recv(t)
    \/ \E t \in Conns : Skip(t)
    \/ \E t \in Conns : Break(t)
    \/ \E t \in Conns : IdLocations(t)
    \/ \E t \in Conns : Respond(t)
    \/ \E t \in Conns : DistributeSample(t)
    \/ \E t \in Conns : DistributeAssign(t)
    \/ \E t \in Conns : cleanup_client(t)

Spec == Init /\ [][Next]_vars

\* The worked scenario: a file of 10 records and two workers, A on the first
\* connection and B on the second.  The peers follow the scenario's script:
\* each worker asks for data once, B connects when A has been served, and A
\* (only A) disconnects when B has been served; every reply reaches its
\* worker.  get_id_locations requests, requests of other types and the
\* server's shutdown may come at any time.
A == 1
B == 2
Script ==
    /\ nconn' <= 2
    /\ nconn' = 2 /\ nconn = 1 => A \in DOMAIN client_data /\ pc[A] = "recv"
    /\ \A t \in Conns :
         /\ pc[t] = "recv" /\ pc'[t] = "dd_lock"
               => client_id[t] \notin DOMAIN client_data /\ running
         /\ pc[t] \in {"respond", "locations"} /\ pc'[t] = "cu_lock" => ~running
         /\ pc[t] = "recv" /\ pc'[t] \in {"cu_lock", "except"} /\ ~closed[t]
               => t = A /\ B \in DOMAIN client_data /\ pc[B] = "recv"

ScenarioNext ==
    \/ Accept /\ Script
    \/ Interrupt /\ Script
    \/ shutdown /\ Script
    \/ \E t \in Conns : Recv(t) /\ Script
    \/ \E t \in Conns : Skip(t) /\ Script
    \/ \E t \in Conns : Break(t) /\ Script
    \/ \E t \in Conns : IdLocations(t) /\ Script
    \/ \E t \in Conns : Respond(t) /\ Script
    \/ \E t \in Conns : DistributeSample(t) /\ Script
    \/ \E t \in Conns : DistributeAssign(t) /\ Script
    \/ \E t \in Conns : cleanup_client(t) /\ Script

ScenarioSpec == Loaded(10) /\ [][ScenarioNext]_vars

\* Fair scheduling: a step a server thread can take is eventually taken, and
\* a thread waiting for the lock gets it if the lock is free again and again.
\* What the peers send, and when (Accept, Recv, Interrupt), is not forced.
ThreadStep(t) ==
    Skip(t) \/ Break(t) \/ IdLocations(t) \/ Respond(t) \/ DistributeSample(t)
        \/ DistributeAssign(t) \/ cleanup_client(t)

Fairness ==
    /\ SF_vars(shutdown)
    /\ \A t \in Conns : SF_vars(ThreadStep(t))

FairSpec == Spec /\ Fairness

\* In the scenario no request is left to sample for when A disconnects; the
\* steps that then remain to the handler threads are scheduled fairly.
ScenarioFairness ==
    \A t \in Conns :
        /\ SF_vars(cleanup_client(t))
        /\ WF_vars(DistributeAssign(t) \/ Respond(t) \/ IdLocations(t)
                       \/ Skip(t) \/ Break(t))

FairScenarioSpec == ScenarioSpec /\ ScenarioFairness

----------------------------------------------------------------------------
\* Properties

\* records held in the allocations of the workers in S, counted
RECURSIVE SumLen(_, _)
SumLen(f, S) ==
    IF S = {} THEN 0
    ELSE LET k == CHOOSE x \in S : TRUE
         IN  Len(f[k]) + SumLen(f, S \ {k})

Allocated(c) == IF c \in DOMAIN client_data THEN client_data[c] ELSE <<>>
Held == UNION {Range(client_data[c]) : c \in DOMAIN client_data}
NoRepeat(s) == \A i, j \in DOMAIN s : s[i] = s[j] => i = j

\* a get_data call (or a rebalance pull) of thread t takes the lock and runs
\* lines 110-119 in this step
Samples(t) == pc[t] = "dd_lock" /\ pc'[t] # "dd_lock"

\* thread t runs lines 121-122 in this step
Assigns(t) == pc[t] = "dd_assign" /\ pc'[t] # "dd_assign"

\* C1. Conservation: while the server runs, whenever the lock is not held,
\* the records in the pool plus the records in all allocations are as many
\* as were loaded, and together they are exactly the loaded records.
Conservation ==
    running /\ lock = NoThread =>
        /\ Len(available_data) + SumLen(client_data, DOMAIN client_data) = loaded
        /\ Range(available_data) \cup Held = 1..loaded

\* C2. Partition: whenever the lock is not held, no record is in the
\* allocations of two different workers, and no record is both in the pool
\* and in an allocation.
Partition ==
    lock = NoThread =>
        /\ \A c, d \in DOMAIN client_data :
             c # d => Range(client_data[c]) \cap Range(client_data[d]) = {}
        /\ Range(available_data) \cap Held = {}

\* C2 witness: the lock is free, two workers hold records and the pool is
\* not empty.
PartitionWitness ==
    /\ lock = NoThread
    /\ available_data # <<>>
    /\ \E c, d \in DOMAIN client_data :
         c # d /\ client_data[c] # <<>> /\ client_data[d] # <<>>

\* C5. Fair share: a request served with p records in the pool and r workers
\* registered takes exactly min(p, max(1, p div (r + 1))) distinct records out
\* of the pool and returns them: never more than p, at least 1 if p > 0.
FairShare ==
    [][\A t \in Conns : Samples(t) =>
         LET p == Len(available_data)
             r == Cardinality(DOMAIN clients)
             share == IF p \div (r + 1) >= 1 THEN p \div (r + 1) ELSE 1
             k == IF share <= p THEN share ELSE p
             got == selected_data'[t]
         IN  /\ Len(got) = k
             /\ k <= p
             /\ p > 0 => k >= 1
             /\ NoRepeat(got)
             /\ Range(got) \subseteq Range(available_data)
             /\ Len(available_data') = p - k
             /\ Range(available_data') = Range(available_data) \ Range(got)
      ]_vars

\* C5 witness: with three records in the pool and two workers registered a
\* request has taken its share of one record.
FairShareWitness ==
    \E t \in Conns :
        /\ pc[t] = "dd_assign"
        /\ Cardinality(DOMAIN clients) = 2
        /\ Len(selected_data[t]) = 1
        /\ Len(available_data) = 2

\* C6. Assign appends: serving a request leaves the worker's allocation
\* equal to its previous allocation followed by the newly sampled records.
AssignAppends ==
    [][\A t \in Conns : Assigns(t) =>
         client_data'[dd_arg[t]] = Allocated(dd_arg[t]) \o selected_data[t]
      ]_vars

\* C3. Every disconnect of a registered worker eventually completes, and then
\* the worker has no entry left in the assignment table.
DisconnectCompletes ==
    \A t \in Conns :
        (running /\ pc[t] = "cu_lock" /\ client_id[t] \in DOMAIN clients)
            ~> (pc[t] = "done" /\ client_id[t] \notin DOMAIN client_data)

\* C4. Deadlock freedom: under fair scheduling a held lock is eventually
\* released, and a get_data request waiting for the lock is eventually
\* answered.
DeadlockFreedom ==
    \A t \in Conns :
        /\ (lock = t) ~> (lock = NoThread)
        /\ (pc[t] = "dd_lock") ~> (pc[t] = "respond")

\* C7. Worked scenario: 10 records; A was served 5 (pool 5), B was served 1
\* (pool 4), A disconnects.  Then, unless the server is shut down, A's 5
\* records return to the pool (pool 9), and the run reaches a state where
\* exactly 4 records were pushed to B in one data_update and the pool holds 5.
ScenarioDisconnect ==
    /\ running
    /\ client_id[A] = 1 /\ client_id[B] = 2
    /\ pc[A] = "cu_lock" /\ pc[B] = "recv"
    /\ Len(Allocated(1)) = 5
    /\ Len(Allocated(2)) = 1
    /\ Len(available_data) = 4

ScenarioReclaimed ==
    /\ 1 \notin DOMAIN client_data
    /\ 1 \notin DOMAIN clients
    /\ Len(available_data) = 9

ScenarioEnd ==
    /\ 1 \notin DOMAIN client_data
    /\ Len(updates[B]) = 1
    /\ Len(updates[B][1]) = 4
    /\ Len(available_data) = 5

WorkedScenario ==
    /\ ScenarioDisconnect ~> (ScenarioReclaimed \/ ~running)
    /\ ScenarioDisconnect ~> (ScenarioEnd \/ ~running)

\* C8. Location consistency: while the server runs, whenever the lock is not
\* held every worker with an entry in the assignment table is registered, and
\* the mapping a get_id_locations request is answered with names registered
\* workers only.
LocationConsistency ==
    running =>
        /\ lock = NoThread => DOMAIN client_data \subseteq DOMAIN clients
        /\ \A t \in Conns : pc[t] = "locations" =>
             \A m \in id_locations(client_data) :
                 Range(m) \subseteq DOMAIN clients

\* C9. Idempotent exhaustion: a request served while the pool is empty
\* returns the empty sequence at once and leaves the pool, every allocation
\* and the registered set as they were.
IdempotentExhaustion ==
    [][\A t \in Conns : Samples(t) /\ available_data = <<>> =>
         /\ selected_data'[t] = <<>>
         /\ pc'[t] = "respond"
         /\ lock' = NoThread
         /\ UNCHANGED <<available_data, client_data, clients>>
      ]_vars

\* C9 witness: a worker that holds records has asked again with the pool
\* empty and is about to be sent the empty sequence.
IdempotentExhaustionWitness ==
    \E t \in Conns :
        /\ pc[t] = "respond"
        /\ selected_data[t] = <<>>
        /\ available_data = <<>>
        /\ Allocated(client_id[t]) # <<>>

\* C11. Connect registers an empty worker and moves no data: the step that
\* accepts a connection leaves the pool and every allocation as they were,
\* and right after it the identifier given to the new worker has no records
\* in the assignment table.
ConnectIsEmpty ==
    [][nconn' = nconn + 1 =>
         LET c == client_id'[nconn']
         IN  /\ c \in DOMAIN clients'
             /\ c \in DOMAIN client_data' => client_data'[c] = <<>>
             /\ UNCHANGED <<available_data, client_data>>
      ]_vars

\* C12. Double disconnect is a no-op: cleanup_client called for a worker that
\* is not registered takes the lock, leaves the pool, the assignment table,
\* the registered set and every socket as they were, pushes nothing, releases
\* the lock and returns.
DoubleDisconnectNoOp ==
    [][\A t \in Conns :
         pc[t] = "cu_lock" /\ pc'[t] # "cu_lock"
                 /\ client_id[t] \notin DOMAIN clients =>
             /\ UNCHANGED <<available_data, client_data, clients, updates,
                            closed>>
             /\ pc'[t] = "done"
             /\ lock' = NoThread
      ]_vars

\* C12 witness: a handler whose worker was no longer registered has run
\* cleanup_client and returned, with records still in the pool.
DoubleDisconnectWitness ==
    \E t \in Conns :
        /\ pc[t] = "done"
        /\ client_id[t] \notin DOMAIN clients
        /\ lock = NoThread
        /\ available_data # <<>>

\* C13. Every access to shared state is made under the lock: the thread
\* that reads the assignment table for get_id_locations holds the lock and
\* no other thread is then halfway through an operation, and the thread that
\* registers a new connection holds the lock.
LockedAccess ==
    [][/\ \A t \in Conns :
            pc[t] = "locations" /\ pc'[t] # "locations" =>
                /\ lock = t
                /\ \A u \in Conns \ {t} : pc[u] # "dd_assign"
       /\ nconn' # nconn => lock = Main
      ]_vars

\* thread t moves on in this step
Moves(t) == pc'[t] # pc[t]

\* C16 as stated. A malformed or unrecognized request runs no coordinator
\* operation: while the server runs, the handler that read such a message
\* goes back to reading, and the pool, the assignment table and the
\* registered set are as before.
MalformedIgnored ==
    [][\A t \in Conns :
         running /\ request[t] \in {"unknown", "malformed"} /\ Moves(t) =>
             /\ pc'[t] = "recv"
             /\ UNCHANGED <<available_data, client_data, clients>>
      ]_vars

\* C16, amended. A malformed or unrecognized request is never served as
\* get_data or get_id_locations, and handling it changes neither the pool,
\* nor the assignment table, nor the registered set, nor the lock.  After a
\* request of an unrecognized type the handler goes on with its loop; after
\* a malformed one it leaves the loop, so that cleanup_client is called for
\* its worker.
MalformedHandling ==
    [][\A t \in Conns :
         /\ request'[t] \in {"unknown", "malformed"} =>
                pc'[t] \in {"next", "except"}
         /\ request[t] \in {"unknown", "malformed"} /\ Moves(t) =>
                /\ UNCHANGED <<available_data, client_data, clients, lock,
                               updates>>
                /\ request[t] = "unknown" =>
                       pc'[t] = IF running THEN "recv" ELSE "cu_lock"
                /\ request[t] = "malformed" => pc'[t] = "cu_lock"
      ]_vars

\* C16 witness: while a worker holds records, one handler has read a request
\* of an unrecognized type and another a malformed one.
MalformedHandlingWitness ==
    \E t, u \in Conns :
        /\ request[t] = "unknown" /\ pc[t] = "next"
        /\ request[u] = "malformed" /\ pc[u] = "except"
        /\ \E c \in DOMAIN client_data : client_data[c] # <<>>

\* thread t is inside the loop of handle_client (lines 45-89)
InLoop(t) ==
    /\ pc[t] \in {"recv", "locations", "next", "except", "dd_lock", "dd_assign",
                  "respond"}
    /\ caller[t] # "redistribute_data"

\* C17. However a handler's loop ends, cleanup_client is called for its
\* connection, exactly once: a handler leaves the loop only into the call of
\* cleanup_client, the call is made only on leaving the loop, and the loop is
\* never entered again.
CleanupOnce ==
    [][\A t \in Conns :
         /\ InLoop(t) /\ ~InLoop(t)' => pc'[t] = "cu_lock"
         /\ pc'[t] = "cu_lock" /\ pc[t] # "cu_lock" => InLoop(t)
         /\ ~InLoop(t) /\ pc[t] # "idle" => ~InLoop(t)'
      ]_vars

\* C17 witness: while the server runs, the loops of two handlers have ended,
\* one on a connection the server had not closed; cleanup_client deregistered
\* the first worker and is being called for the second.
CleanupOnceWitness ==
    \E t, u \in Conns :
        /\ running
        /\ pc[t] = "rd_lock" /\ client_id[t] \notin DOMAIN clients
        /\ pc[u] = "cu_lock" /\ ~closed[u]

\* connection s is open: accepted, and its handler has not left its loop
Live(s) == InLoop(s)

\* C18. Worker identifiers are unique among live connections: no two open
\* connections have the same identifier, and the handle registered for the
\* worker of an open connection is that connection.
UniqueIds ==
    \A s, t \in Conns :
        Live(s) /\ Live(t) /\ running =>
            /\ s # t => client_id[s] # client_id[t]
            /\ client_id[s] \in DOMAIN clients => clients[client_id[s]] = s

\* C19. Shutdown terminates: from every state, once shutdown has been
\* called it eventually gets the lock, empties the registered set and the
\* assignment table, and returns.
ShutdownTerminates ==
    (pc[Main] = "sd_lock")
        ~> (pc[Main] = "done" /\ lock # Main
                /\ clients = EmptyDict /\ client_data = EmptyDict)

====
